---- MODULE Spec2Model ----
(***************************************************************************)
(* Model of the heavy_metal_data scripts:                                  *)
(*   src/code/scrap_data.py            AngryMetalGuyScraper / Cleaner      *)
(*   src/web_scrapping/scrap_test_data.py   Wikipedia band lists, anti-join*)
(*                                                                         *)
(* Text.  A Python str is modelled as a sequence of lexemes.  A lexeme is  *)
(* a run of characters that no other lexeme overlaps, so that the literals *)
(* the code searches for are exactly the lexemes (or lexeme sequences)     *)
(* named below: the en dash U+2013 is the lexeme "EN_DASH", the word       *)
(* 'Review' is "Review", 'Black Metal' is <<"Black", " ", "Metal">>, the   *)
(* comma is ",".  Concatenation of strs is \o, '' is << >>.                *)
(*                                                                         *)
(* Numbers.  A score is held in tenths (5.0 is 50, 0.5 is 5).              *)
(***************************************************************************)
EXTENDS Integers, Sequences, FiniteSets, TLC

VARIABLES
  \* ---- AngryMetalGuyScraper.scrape (src/code/scrap_data.py:43-66)
  cat,        \* position of the for loop in score_urls.items(); NCat+1 = loop over
  page,       \* local `page`
  pc,         \* "request" | "parse" | "sleep" | "done" | "raised"
  url,        \* local `url`: the last URL requested, [base, page]
  response,   \* local `response`: [status_code, reviews], the status and the
              \* number of review blocks line 56 finds in the body
  reviews,    \* the blocks of `reviews` the inner for loop has not reached yet
  data,       \* self.data
  requested,  \* history: every URL passed to requests.get, in order
  origin,     \* history: per record of self.data, the base URL it was scraped from
  appended,   \* history: records appended since the last requests.get
  slept,      \* history: time.sleep(self.delay) calls since the last requests.get
  \* ---- AngryMetalGuyScraper._parse_review, title part (scrap_data.py:71-79)
  title_tag,  \* the h2.entry-title element: [present, text]
  parsed,     \* << >> before the call, afterwards <<[band_album, band, album]>>
  \* ---- __main__ of scrap_data.py with AngryMetalGuyCleaner.clean (104-144)
  genre_lists,\* per row, the `genres` list _parse_review joined into Genres
  df_raw,     \* scraper.to_dataframe()
  df_clean,   \* cleaner.clean(df_raw)
  df_reclean, \* cleaner.clean(df_clean)
  stage,      \* "raw" | "clean" | "reclean"
  \* ---- __main__ of scrap_test_data.py with filter_existing_bands (127-170)
  bands_df,   \* concat_death_black(...)
  amg_data,   \* the Band column of the training dataset
  df_test,    \* filter_existing_bands(bands_df, amg_data)
  fstage      \* "merged" | "filtered"

scrapeVars ==
  <<cat, page, pc, url, response, reviews, data, requested, origin, appended, slept>>
titleVars == <<title_tag, parsed>>
cleanVars == <<genre_lists, df_raw, df_clean, df_reclean, stage>>
filterVars == <<bands_df, amg_data, df_test, fstage>>
vars == <<scrapeVars, titleVars, cleanVars, filterVars>>

----------------------------------------------------------------------------
(* Bounds of the model.                                                    *)

\* most records the accumulator self.data is let grow to
MaxRecords == 2
\* most review blocks on one listing page
MaxBlocks == 2
\* most lexemes in the text of an h2 title
MaxTitleLen == 5
\* most lexemes in an Album text handed to clean
MaxAlbumLen == 3
\* most tag links in one entry-meta region
MaxGenres == 2
\* most rows of the review DataFrame handed to clean
MaxRows == 1
\* most rows of the training dataset
MaxTrain == 2

----------------------------------------------------------------------------
(* str operations                                                          *)

\* what str.strip() and the regex class \s take for whitespace
Whitespace == {" "}

\* all strs of at most n lexemes over the alphabet A
StrsUpTo(A, n) == UNION {[1..k -> A] : k \in 0..n}

\* str.lstrip()
RECURSIVE LStrip(_)
LStrip(s) ==
  IF s = << >> THEN << >>
  ELSE IF Head(s) \in Whitespace THEN LStrip(Tail(s)) ELSE s

\* str.rstrip()
RECURSIVE RStrip(_)
RStrip(s) ==
  IF s = << >> THEN << >>
  ELSE IF s[Len(s)] \in Whitespace THEN RStrip(SubSeq(s, 1, Len(s) - 1)) ELSE s

\* str.strip()
Strip(s) == RStrip(LStrip(s))

\* str.find(c) for a one-lexeme c, 1-based; 0 when c does not occur
Find(s, c) ==
  IF \E i \in 1..Len(s) : s[i] = c
  THEN CHOOSE i \in 1..Len(s) : s[i] = c /\ \A j \in 1..(i - 1) : s[j] # c
  ELSE 0

\* `sub in s`, which is also what Series.str.contains(sub) and
\* re.search of a literal decide
Contains(s, sub) ==
  \E i \in 1..(Len(s) - Len(sub) + 1) : SubSeq(s, i, i + Len(sub) - 1) = sub

\* s.split(c, 1) when c occurs in s: the text before and after the first c
SplitFirst(s, c) ==
  <<SubSeq(s, 1, Find(s, c) - 1), SubSeq(s, Find(s, c) + 1, Len(s))>>

\* s.split(c)[0]: the text before the first c, all of s when c is absent
SplitHead(s, c) ==
  IF Find(s, c) = 0 THEN s ELSE SubSeq(s, 1, Find(s, c) - 1)

\* sep.join(parts)
RECURSIVE Join(_, _)
Join(sep, parts) ==
  IF parts = << >> THEN << >>
  ELSE IF Len(parts) = 1 THEN parts[1]
  ELSE parts[1] \o sep \o Join(sep, Tail(parts))

\* Tag.get_text(strip=True) of an element holding one text node: the text
\* stripped, nothing when the stripped text is empty
GetTextStrip(text) == Strip(text)

----------------------------------------------------------------------------
(* Constants of scrap_data.py                                              *)

\* the separator of line 73, U+2013
EN_DASH == "EN_DASH"

\* SCORE_TAG_URLS in insertion order (dict order is the iteration order)
SCORE_TAG_URLS ==
  << [base |-> "https://www.angrymetalguy.com/tag/50/",  score |-> 50],
     [base |-> "https://www.angrymetalguy.com/tag/45/",  score |-> 45],
     [base |-> "https://www.angrymetalguy.com/tag/40/",  score |-> 40],
     [base |-> "https://www.angrymetalguy.com/tag/35/",  score |-> 35],
     [base |-> "https://www.angrymetalguy.com/tag/30/",  score |-> 30],
     [base |-> "https://www.angrymetalguy.com/tag/2-5/", score |-> 25],
     [base |-> "https://www.angrymetalguy.com/tag/20/",  score |-> 20],
     [base |-> "https://www.angrymetalguy.com/tag/15/",  score |-> 15],
     [base |-> "https://www.angrymetalguy.com/tag/1-0/", score |-> 10],
     [base |-> "https://www.angrymetalguy.com/tag/0-5/", score |-> 5] >>

NCat == Len(SCORE_TAG_URLS)

BLACK_METAL == <<"Black", " ", "Metal">>
DEATH_METAL == <<"Death", " ", "Metal">>
UNKNOWN == <<"Unknown">>

----------------------------------------------------------------------------
(* AngryMetalGuyScraper._parse_review                                      *)

\* An article element of a listing page:
\*   is_review  its class attribute contains 'category-reviews'
\*   title      the h2.entry-title element, [present, text]
\*   meta       the div.entry-meta element, [present, links], each link
\*              an <a> with [href, text]; href is '' when the attribute is
\*              missing (link.get('href', ''))
NoTitleTag == [present |-> FALSE, text |-> << >>]
TitleTag(t) == [present |-> TRUE, text |-> t]
NoMeta == [present |-> FALSE, links |-> << >>]
Meta(ls) == [present |-> TRUE, links |-> ls]
Link(h, t) == [href |-> h, text |-> t]

\* ParseTitle without the two strip() calls of lines 75-76
ParseTitleUnstripped(tag) ==
  LET band_album == IF tag.present THEN GetTextStrip(tag.text) ELSE UNKNOWN
  IN  IF Contains(band_album, <<EN_DASH>>)
      THEN [band_album |-> band_album,
            band  |-> SplitFirst(band_album, EN_DASH)[1],
            album |-> SplitFirst(band_album, EN_DASH)[2]]
      ELSE [band_album |-> band_album, band |-> band_album, album |-> << >>]

\* lines 71-79: band_album, then band and album
ParseTitle(tag) ==
  LET band_album == IF tag.present THEN GetTextStrip(tag.text) ELSE UNKNOWN
  IN  IF Contains(band_album, <<EN_DASH>>)
      THEN [band_album |-> band_album,
            band  |-> Strip(SplitFirst(band_album, EN_DASH)[1]),
            album |-> Strip(SplitFirst(band_album, EN_DASH)[2])]
      ELSE [band_album |-> band_album, band |-> band_album, album |-> << >>]

\* line 82: review.find('div', class_='entry-meta') is None when the block
\* has no such div, and None.find_all raises AttributeError
ParseRaises(review) == ~review.meta.present

\* line 83: the texts of the links whose href contains '/tag/'
ParseGenres(meta) ==
  LET IsTag(l) == Contains(l.href, <<"/tag/">>)
      tags == SelectSeq(meta.links, IsTag)
  IN  [i \in 1..Len(tags) |-> GetTextStrip(tags[i].text)]

\* line 88: ', '.join(genres)
JoinGenres(genres) == Join(<<",", " ">>, genres)

\* lines 85-90, for a block that does not raise
ParseReview(review, score) ==
  [Band   |-> ParseTitle(review.title).band,
   Album  |-> ParseTitle(review.title).album,
   Genres |-> JoinGenres(ParseGenres(review.meta)),
   Score  |-> score]

----------------------------------------------------------------------------
(* AngryMetalGuyScraper.scrape                                             *)

TagLink == Link(<<"https://www.angrymetalguy.com", "/tag/", "black-metal/">>,
                <<" ", "Melodic", " ", "Black", " ", "Metal", " ">>)
AuthorLink == Link(<<"https://www.angrymetalguy.com", "/author/", "amg/">>,
                   <<"Angry", " ", "Metal", " ", "Guy">>)
NoHrefLink == Link(<< >>, <<"Doom">>)

\* the articles a listing page is made of in this model: a complete review,
\* a review without h2.entry-title, a review without div.entry-meta, and an
\* article that is no review
FullReview ==
  [is_review |-> TRUE,
   title |-> TitleTag(<<"Deafheaven", " ", EN_DASH, " ", "Sunbather", " ", "Review">>),
   meta  |-> Meta(<<AuthorLink, TagLink, NoHrefLink>>)]
UntitledReview ==
  [is_review |-> TRUE, title |-> NoTitleTag, meta |-> Meta(<<TagLink>>)]
NoMetaReview ==
  [is_review |-> TRUE,
   title |-> TitleTag(<<"Gorguts", " ", EN_DASH, " ", "Obscura">>),
   meta  |-> NoMeta]
NewsArticle ==
  [is_review |-> FALSE, title |-> TitleTag(<<"News">>), meta |-> Meta(<< >>)]

Articles == {FullReview, UntitledReview, NoMetaReview, NewsArticle}

\* the bodies a response with status 200 can carry
Pages == UNION {[1..k -> Articles] : k \in 0..MaxBlocks}

\* the bodies a response with another status can carry: nothing, or an
\* error page that still shows a review block
ErrorPages == {<< >>, <<FullReview>>}

\* what requests.get can return
Responses ==
  {[status_code |-> 200, content |-> c] : c \in Pages}
    \cup {[status_code |-> st, content |-> c] : st \in {404, 503}, c \in ErrorPages}

\* line 56: soup.find_all('article', class_= ... 'category-reviews' in c)
FindReviews(content) ==
  LET IsReview(a) == a.is_review IN SelectSeq(content, IsReview)

\* line 48: f"{base_url}page/{page}/"
Url(base, p) == [base |-> base, page |-> p]

NoUrl == [base |-> "", page |-> 0]
NoResponse == [status_code |-> 0, reviews |-> 0]

InitScrape ==
  /\ cat = 1
  /\ page = 1
  /\ pc = "request"
  /\ url = NoUrl
  /\ response = NoResponse
  /\ reviews = << >>
  /\ data = << >>
  /\ requested = << >>
  /\ origin = << >>
  /\ appended = 0
  /\ slept = 0

\* `break` at line 53 or 60, then the for loop of line 45 takes the next
\* item and line 46 resets page; the loop is over after the last item
NextCategory ==
  /\ cat' = cat + 1
  /\ page' = 1
  /\ pc' = IF cat + 1 > NCat THEN "done" ELSE "request"
  /\ reviews' = << >>
  /\ UNCHANGED <<data, origin>>

\* lines 58-60: an empty `reviews` ends the category, otherwise the inner
\* for loop starts
AfterFetch(found) ==
  IF found = << >>
  THEN NextCategory
  ELSE /\ pc' = "parse"
       /\ reviews' = found
       /\ UNCHANGED <<cat, page, data, origin>>

\* HandleResponse as response.raise_for_status() would make it: a status
\* other than 200 ends scrape
HandleResponseRaising(r) ==
  IF r.status_code # 200
  THEN /\ pc' = "raised"
       /\ UNCHANGED <<cat, page, reviews, data, origin>>
  ELSE AfterFetch(FindReviews(r.content))

\* lines 51-60: what follows requests.get, by status and body
HandleResponse(r) ==
  IF r.status_code # 200
  THEN NextCategory
  ELSE AfterFetch(FindReviews(r.content))

\* lines 48-60: one pass of the while loop up to the inner for loop
Request ==
  /\ pc = "request"
  /\ \E r \in Responses :
       /\ r.status_code = 200 => Len(data) + Len(FindReviews(r.content)) <= MaxRecords
       /\ url' = Url(SCORE_TAG_URLS[cat].base, page)
       /\ response' = [status_code |-> r.status_code,
                       reviews |-> Len(FindReviews(r.content))]
       /\ requested' = Append(requested, Url(SCORE_TAG_URLS[cat].base, page))
       /\ appended' = 0
       /\ slept' = 0
       /\ HandleResponse(r)
  /\ UNCHANGED <<titleVars, cleanVars, filterVars>>

\* LoopScore read from the first item of the mapping whatever the category
LoopScoreOfFirst == SCORE_TAG_URLS[1].score

\* the score the loop variable of line 45 holds
LoopScore == SCORE_TAG_URLS[cat].score

\* lines 62-63: one pass of the inner for loop; an AttributeError out of
\* _parse_review is caught nowhere and ends scrape
Parse ==
  /\ pc = "parse"
  /\ IF ParseRaises(Head(reviews))
     THEN /\ pc' = "raised"
          /\ UNCHANGED <<reviews, data, origin, appended>>
     ELSE /\ data' = Append(data, ParseReview(Head(reviews), LoopScore))
          /\ origin' = Append(origin, url.base)
          /\ reviews' = Tail(reviews)
          /\ appended' = appended + 1
          /\ pc' = IF Tail(reviews) = << >> THEN "sleep" ELSE "parse"
  /\ UNCHANGED <<cat, page, url, response, requested, slept>>
  /\ UNCHANGED <<titleVars, cleanVars, filterVars>>

\* Sleep with `page += 2`
SleepSkippingPage ==
  /\ pc = "sleep"
  /\ page' = page + 2
  /\ slept' = slept + 1
  /\ pc' = "request"
  /\ UNCHANGED <<cat, url, response, reviews, data, requested, origin, appended>>
  /\ UNCHANGED <<titleVars, cleanVars, filterVars>>

\* Sleep without the time.sleep call
SleepWithoutDelay ==
  /\ pc = "sleep"
  /\ page' = page + 1
  /\ pc' = "request"
  /\ UNCHANGED <<cat, url, response, reviews, data, requested, origin, appended, slept>>
  /\ UNCHANGED <<titleVars, cleanVars, filterVars>>

\* lines 65-66: page += 1, then time.sleep(self.delay)
Sleep ==
  /\ pc = "sleep"
  /\ page' = page + 1
  /\ slept' = slept + 1
  /\ pc' = "request"
  /\ UNCHANGED <<cat, url, response, reviews, data, requested, origin, appended>>
  /\ UNCHANGED <<titleVars, cleanVars, filterVars>>

----------------------------------------------------------------------------
(* The variables of the scripts a specification leaves alone                *)

TitleIdle == title_tag = NoTitleTag /\ parsed = << >>
CleanIdle ==
  /\ genre_lists = << >>
  /\ df_raw = << >>
  /\ df_clean = << >>
  /\ df_reclean = << >>
  /\ stage = "raw"
FilterIdle ==
  /\ bands_df = << >>
  /\ amg_data = << >>
  /\ df_test = << >>
  /\ fstage = "merged"

----------------------------------------------------------------------------
(* scraper.scrape() of scrap_data.py's __main__, line 138                  *)

Init == InitScrape /\ TitleIdle /\ CleanIdle /\ FilterIdle

Next == Request \/ Parse \/ Sleep

Spec == Init /\ [][Next]_vars

----------------------------------------------------------------------------
(* Claims about scrape                                                     *)

\* the URLs requested of one category, in the order requested
RequestsOf(c) ==
  LET Mine(u) == u.base = SCORE_TAG_URLS[c].base IN SelectSeq(requested, Mine)

\* the number of records scraped from one category, by the origins o
RecordsIn(o, c) ==
  Cardinality({i \in 1..Len(o) : o[i] = SCORE_TAG_URLS[c].base})

\* this step calls requests.get
IsRequest == requested' # requested

\* the response this step received ends the category
StopsHere == response'.status_code # 200 \/ response'.reviews = 0

\* the scraper goes on with the next category, or is through with the last
MovesOn ==
  /\ cat' = cat + 1
  /\ page' = 1
  /\ pc' = IF cat = NCat THEN "done" ELSE "request"

PagesInOrder ==
  \A c \in 1..NCat :
    \A i \in 1..Len(RequestsOf(c)) : RequestsOf(c)[i].page = i

PaginationStep ==
  /\ IsRequest =>
       /\ requested' = Append(requested, Url(SCORE_TAG_URLS[cat].base, page))
       /\ StopsHere => MovesOn
       /\ ~StopsHere => cat' = cat /\ page' = page /\ pc' = "parse"
  /\ cat' # cat => IsRequest /\ StopsHere
  /\ \A c \in 1..NCat : c < cat => RequestsOf(c)' = RequestsOf(c)

\* C1: in scrape, the pages of every category are requested as 1, 2, 3, ...
\* without gaps; the category ends exactly at the first response that has a
\* status other than 200 or no review block, no page of it is requested
\* afterwards, and the scraper then moves on to the next category instead of
\* raising.
C1_Pagination == [](PagesInOrder) /\ [][PaginationStep]_vars

\* C1 witness: the first category was left at its third page, an empty one
C1_Witness ==
  /\ cat = 2
  /\ pc = "request"
  /\ requested = <<Url(SCORE_TAG_URLS[1].base, 1), Url(SCORE_TAG_URLS[1].base, 2),
                  Url(SCORE_TAG_URLS[1].base, 3)>>
  /\ response = [status_code |-> 200, reviews |-> 0]

FirstPageFailureStep ==
  (IsRequest /\ page = 1 /\ response'.status_code # 200) =>
     /\ data' = data
     /\ RecordsIn(origin', cat) = 0
     /\ MovesOn

ClosedCategoriesKeep ==
  \A c \in 1..NCat : c < cat => RecordsIn(origin', c) = RecordsIn(origin, c)

FirstPagesRequested ==
  \A c \in 1..NCat :
    (c < cat \/ pc = "done") => Len(RequestsOf(c)) >= 1 /\ RequestsOf(c)[1].page = 1

\* C2: a status other than 200 for page 1 of a category adds no record for
\* that category and does not end scrape: the scraper goes on to page 1 of
\* the next category, so that a scrape run to its end has requested page 1 of
\* every category, and the records of earlier categories stay as they are.
C2_FirstPageFailure ==
  /\ [][FirstPageFailureStep /\ ClosedCategoriesKeep]_vars
  /\ [](FirstPagesRequested)

\* C2 witness: records from the first category, page 1 of the second answered
\* with 404, and the third category is up next
C2_Witness ==
  /\ cat = 3
  /\ pc = "request"
  /\ page = 1
  /\ url = Url(SCORE_TAG_URLS[2].base, 1)
  /\ response.status_code = 404
  /\ Len(data) >= 1

\* 0.5 to 5.0 in steps of 0.5, in tenths
TenScores == {5 * k : k \in 1..10}

\* C3: every record of self.data has a Score among the ten values 0.5, 1.0,
\* ..., 5.0, and it is the score SCORE_TAG_URLS maps to the category URL the
\* record's block was scraped from.
C3_ScoreOfCategory ==
  /\ Len(origin) = Len(data)
  /\ \A i \in 1..Len(data) :
       /\ data[i].Score \in TenScores
       /\ \E c \in 1..NCat :
            SCORE_TAG_URLS[c].base = origin[i] /\ SCORE_TAG_URLS[c].score = data[i].Score

\* C3 witness: two records scraped from different categories
C3_Witness ==
  /\ Len(data) = 2
  /\ origin[1] # origin[2]
  /\ data[2].Score = 5

\* C9: _parse_review never raises on a block of unexpected shape: a block
\* without a title element gives Band 'Unknown' and Album '', a block without
\* a genre metadata region gives Genres '', and in both cases the record is
\* appended and the scrape goes on with the next block.
C9_PermissiveParse ==
  [][pc = "parse" =>
       /\ pc' # "raised"
       /\ data' = Append(data, data'[Len(data')])
       /\ reviews' = Tail(reviews)
       /\ ~Head(reviews).title.present =>
            data'[Len(data')].Band = UNKNOWN /\ data'[Len(data')].Album = << >>
       /\ ~Head(reviews).meta.present => data'[Len(data')].Genres = << >>]_vars

\* C10: between two successive requests of one category the delay is
\* executed exactly once, after the records of the earlier page were appended
\* and before the later page is requested.
C10_DelayBetweenPages ==
  /\ [][(IsRequest /\ page > 1) =>
          /\ slept = 1
          /\ reviews = << >>
          /\ appended = response.reviews
          /\ appended >= 1]_vars
  /\ [][slept' > slept =>
          /\ reviews = << >>
          /\ appended = response.reviews
          /\ ~IsRequest]_vars
  /\ [](slept <= 1)

\* C10 witness: page 2 of a category has been requested
C10_Witness ==
  /\ url.page = 2
  /\ Len(requested) >= 2
  /\ requested[Len(requested) - 1].base = url.base
  /\ slept = 0

----------------------------------------------------------------------------
(* _parse_review on one title element, lines 71-79                         *)

TitleAlphabet == {"Deafheaven", " ", EN_DASH, "-"}

TitleTags ==
  {NoTitleTag} \cup {TitleTag(t) : t \in StrsUpTo(TitleAlphabet, MaxTitleLen)}

InitTitle ==
  /\ InitScrape /\ CleanIdle /\ FilterIdle
  /\ title_tag \in TitleTags
  /\ parsed = << >>

ParseTitleCall ==
  /\ parsed = << >>
  /\ parsed' = <<ParseTitle(title_tag)>>
  /\ UNCHANGED <<title_tag, scrapeVars, cleanVars, filterVars>>

NextTitle == ParseTitleCall

TitleSpec == InitTitle /\ [][NextTitle]_vars

\* the title as _parse_review sees it, trimmed
TrimmedTitle == IF title_tag.present THEN Strip(title_tag.text) ELSE UNKNOWN

HasSeparator == \E i \in 1..Len(TrimmedTitle) : TrimmedTitle[i] = EN_DASH

\* ' <separator> '.join of a (Band, Album) pair, trimmed
Rejoined(r) == Strip(r.band \o <<" ", EN_DASH, " ">> \o r.album)

\* C5, as claimed: for every title with the separator, rejoining Band and
\* Album with ' <separator> ' and trimming gives back the trimmed title; for
\* every title without it, Band is the whole title and Album is ''.
C5_RoundTrip ==
  parsed # << >> =>
    IF HasSeparator
    THEN Rejoined(parsed[1]) = TrimmedTitle
    ELSE parsed[1].band = TrimmedTitle /\ parsed[1].album = << >>

\* the trimmed title before and after its first separator
BeforeSep ==
  LET i == CHOOSE k \in 1..Len(TrimmedTitle) :
             TrimmedTitle[k] = EN_DASH /\ \A j \in 1..(k - 1) : TrimmedTitle[j] # EN_DASH
  IN  SubSeq(TrimmedTitle, 1, i - 1)
AfterSep ==
  LET i == CHOOSE k \in 1..Len(TrimmedTitle) :
             TrimmedTitle[k] = EN_DASH /\ \A j \in 1..(k - 1) : TrimmedTitle[j] # EN_DASH
  IN  SubSeq(TrimmedTitle, i + 1, Len(TrimmedTitle))

\* s has no whitespace at either end
IsTrimmed(s) == s = << >> \/ (s[1] \notin Whitespace /\ s[Len(s)] \notin Whitespace)

\* each non-empty side of the first separator is set off by exactly one space
SingleSpaced ==
  /\ BeforeSep = << >> \/
       (Len(BeforeSep) >= 2 /\ BeforeSep[Len(BeforeSep)] = " "
          /\ BeforeSep[Len(BeforeSep) - 1] \notin Whitespace)
  /\ AfterSep = << >> \/
       (Len(AfterSep) >= 2 /\ AfterSep[1] = " " /\ AfterSep[2] \notin Whitespace)

\* C5, amended: for every title with the separator, Band and Album are the
\* texts before and after the first separator without their surrounding
\* whitespace, and rejoining them with ' <separator> ' and trimming gives
\* back the trimmed title exactly when each non-empty side of the first
\* separator is set off from it by exactly one space; for every title without
\* the separator, Band is the whole title and Album is ''.
C5_RoundTripSingleSpaced ==
  parsed # << >> =>
    IF HasSeparator
    THEN /\ IsTrimmed(parsed[1].band) /\ IsTrimmed(parsed[1].album)
         /\ \E l, r \in StrsUpTo(Whitespace, MaxTitleLen) :
              BeforeSep = parsed[1].band \o l /\ AfterSep = r \o parsed[1].album
         /\ (Rejoined(parsed[1]) = TrimmedTitle) <=> SingleSpaced
    ELSE parsed[1].band = TrimmedTitle /\ parsed[1].album = << >>

\* C5 witness: a title with single spaces around the separator has been split
C5_Witness ==
  /\ title_tag = TitleTag(<<"Deafheaven", " ", EN_DASH, " ", "Deafheaven">>)
  /\ parsed = <<[band_album |-> title_tag.text,
                 band |-> <<"Deafheaven">>, album |-> <<"Deafheaven">>]>>

----------------------------------------------------------------------------
(* AngryMetalGuyCleaner.clean                                              *)

\* a missing cell of a DataFrame column (what pd.notna rejects)
NaN == <<"NaN">>

REVIEW == "Review"

\* line 119: x.split(',')[0] if pd.notna(x) else ''
FirstGenre(x) == IF x # NaN THEN SplitHead(x, ",") ELSE << >>

\* StripReview as re.sub(r'\s*Review', '', album, count=1) would make it:
\* the first 'Review' goes, wherever it stands
StripReviewUnanchored(album) ==
  IF Find(album, REVIEW) = 0 THEN album
  ELSE RStrip(SubSeq(album, 1, Find(album, REVIEW) - 1))
         \o SubSeq(album, Find(album, REVIEW) + 1, Len(album))

\* line 122: Series.str.replace(r'\s*Review$', '', regex=True), that is
\* re.sub: the one match there can be is 'Review' at the end of the text
\* together with all the whitespace before it
StripReview(album) ==
  IF album # << >> /\ album[Len(album)] = REVIEW
  THEN RStrip(SubSeq(album, 1, Len(album) - 1))
  ELSE album

\* NormalizeGenre with the two np.where tests in the other order
NormalizeGenreDeathFirst(g) ==
  IF Contains(g, DEATH_METAL) THEN DEATH_METAL
  ELSE IF Contains(g, BLACK_METAL) THEN BLACK_METAL
  ELSE g

\* lines 125-128: the nested np.where over str.contains
NormalizeGenre(g) ==
  IF Contains(g, BLACK_METAL) THEN BLACK_METAL
  ELSE IF Contains(g, DEATH_METAL) THEN DEATH_METAL
  ELSE g

\* lines 117-130, row by row; df itself is left as it is (df.copy())
Clean(df) ==
  [i \in 1..Len(df) |->
     [Band   |-> df[i].Band,
      Album  |-> StripReview(df[i].Album),
      Genres |-> NormalizeGenre(FirstGenre(df[i].Genres)),
      Score  |-> df[i].Score]]

----------------------------------------------------------------------------
(* __main__ of scrap_data.py from to_dataframe on, with clean applied once *)
(* more to its own result                                                  *)

AlbumAlphabet == {"Sunbather", " ", REVIEW, "review"}

\* Album texts as _parse_review leaves them: stripped
Albums == {Strip(a) : a \in StrsUpTo(AlbumAlphabet, MaxAlbumLen)}

\* texts of tag links; the site's tag names hold no comma
GenreTags ==
  { BLACK_METAL,
    DEATH_METAL,
    <<"Melodic", " ", "Black", " ", "Metal">>,
    <<"Melodic", " ", "Black", " ", "Metal", "/", "Death", " ", "Metal">>,
    <<"Death", " ", "Metal", "/", "Black", " ", "Metal">>,
    <<"black", " ", "metal">>,
    <<"Doom">> }

\* the `genres` lists of line 83
GenreLists == UNION {[1..k -> GenreTags] : k \in 0..MaxGenres}

\* a record of self.data with its genre list: one per Album text and one per
\* genre list
Scraped(album, genres) ==
  [genres |-> genres,
   row |-> [Band |-> <<"Deafheaven">>, Album |-> album,
            Genres |-> JoinGenres(genres), Score |-> 40]]

\* a row whose Genres cell is missing
MissingGenres ==
  [genres |-> << >>,
   row |-> [Band |-> <<"Gorguts">>, Album |-> <<"Obscura">>,
            Genres |-> NaN, Score |-> 45]]

ScrapedRows ==
  {Scraped(a, <<BLACK_METAL>>) : a \in Albums}
    \cup {Scraped(<<"Sunbather", " ", REVIEW>>, g) : g \in GenreLists}
    \cup {MissingGenres}

InitClean ==
  /\ InitScrape /\ TitleIdle /\ FilterIdle
  /\ \E n \in 0..MaxRows : \E rows \in [1..n -> ScrapedRows] :
       /\ genre_lists = [i \in 1..n |-> rows[i].genres]
       /\ df_raw = [i \in 1..n |-> rows[i].row]
  /\ df_clean = << >>
  /\ df_reclean = << >>
  /\ stage = "raw"

\* line 143: df_clean = cleaner.clean(df_raw)
CleanRaw ==
  /\ stage = "raw"
  /\ df_clean' = Clean(df_raw)
  /\ stage' = "clean"
  /\ UNCHANGED <<genre_lists, df_raw, df_reclean, scrapeVars, titleVars, filterVars>>

\* clean applied to its own result
CleanAgain ==
  /\ stage = "clean"
  /\ df_reclean' = Clean(df_clean)
  /\ stage' = "reclean"
  /\ UNCHANGED <<genre_lists, df_raw, df_clean, scrapeVars, titleVars, filterVars>>

NextClean == CleanRaw \/ CleanAgain

CleanSpec == InitClean /\ [][NextClean]_vars

EndsInReview(album) == album # << >> /\ album[Len(album)] = REVIEW

\* C4, as claimed: clean(clean(d)) is clean(d) in every column, also for
\* Album texts that end in more than one 'Review'.
C4_Idempotent == stage = "reclean" => df_reclean = df_clean

\* C4, amended: clean(clean(d)) has the rows of clean(d) with the same Band,
\* Genres and Score; its Album is that of clean(d) exactly in the rows whose
\* Album after one cleaning does not end in 'Review' any more.
C4_IdempotentButAlbum ==
  stage = "reclean" =>
    /\ Len(df_reclean) = Len(df_clean)
    /\ \A i \in 1..Len(df_clean) :
         /\ df_reclean[i].Band = df_clean[i].Band
         /\ df_reclean[i].Genres = df_clean[i].Genres
         /\ df_reclean[i].Score = df_clean[i].Score
         /\ (df_reclean[i].Album = df_clean[i].Album) <=> ~EndsInReview(df_clean[i].Album)

\* C4 witness: clean has run twice on an Album that ends in 'Review' twice
\* and on one that ends in it once
C4_Witness ==
  /\ stage = "reclean"
  /\ \E i \in 1..Len(df_raw) :
       /\ df_raw[i].Album \in {<<REVIEW, " ", REVIEW>>, <<"Sunbather", " ", REVIEW>>}
       /\ df_raw[i].Genres = BLACK_METAL

\* C6: the cleaned Album is the Album without its trailing ' Review' (one
\* space, then 'Review', at the very end) when it ends so, and the Album as
\* it was otherwise; an Album ending in 'Review' with no space before it is
\* left as it was.
C6_LiteralSuffix ==
  stage # "raw" =>
    \A i \in 1..Len(df_raw) :
      LET a == df_raw[i].Album
          n == Len(a)
      IN  df_clean[i].Album =
            IF n >= 2 /\ a[n - 1] = " " /\ a[n] = REVIEW
            THEN SubSeq(a, 1, n - 2)
            ELSE a

\* the first entry of a genre list, '' for an empty list
FirstEntry(genres) == IF genres = << >> THEN << >> ELSE genres[1]

----------------------------------------------------------------------------
(* scrap_test_data.py: concat_death_black and filter_existing_bands        *)

\* band names as whole strs, in the order sorted() gives them
BandOrder == <<"Gorguts", "Morbid Angel", "gorguts">>

BandNames == {BandOrder[i] : i \in 1..Len(BandOrder)}

\* Band values of the training dataset
TrainingNames == {"Morbid Angel", "gorguts", "Emperor"}

\* lines 152 and 159: sorted(set(bands))
SortedSet(bands) ==
  LET In(b) == b \in bands IN SelectSeq(BandOrder, In)

\* lines 122-124
ConcatDeathBlack(death_metal, black_metal) ==
  [i \in 1..Len(death_metal) |-> [Band |-> death_metal[i], Genre |-> "Death Metal"]]
    \o [i \in 1..Len(black_metal) |-> [Band |-> black_metal[i], Genre |-> "Black Metal"]]

\* FilterExistingBands without the ~ of line 138
FilterKeepingExisting(df, training_bands) ==
  LET Known(row) == \E k \in 1..Len(training_bands) : training_bands[k] = row.Band
  IN  SelectSeq(df, Known)

\* line 138: bands_df[~bands_df["Band"].isin(training_data["Band"].to_list())]
FilterExistingBands(df, training_bands) ==
  LET Unknown(row) == ~\E k \in 1..Len(training_bands) : training_bands[k] = row.Band
  IN  SelectSeq(df, Unknown)

\* lines 152-166: the merged table and the training dataset as read
InitFilter ==
  /\ InitScrape /\ TitleIdle /\ CleanIdle
  /\ \E death \in SUBSET BandNames, black \in SUBSET BandNames :
       bands_df = ConcatDeathBlack(SortedSet(death), SortedSet(black))
  /\ amg_data \in UNION {[1..n -> TrainingNames] : n \in 0..MaxTrain}
  /\ df_test = << >>
  /\ fstage = "merged"

\* line 167
Filter ==
  /\ fstage = "merged"
  /\ df_test' = FilterExistingBands(bands_df, amg_data)
  /\ fstage' = "filtered"
  /\ UNCHANGED <<bands_df, amg_data, scrapeVars, titleVars, cleanVars>>

NextFilter == Filter

FilterSpec == InitFilter /\ [][NextFilter]_vars

\* the rows of bands_df whose Band is no Band of the training dataset
Kept ==
  {i \in 1..Len(bands_df) : \A k \in 1..Len(amg_data) : amg_data[k] # bands_df[i].Band}

\* C8: filter_existing_bands returns exactly the rows of the scraped table
\* whose Band equals, case and all, no Band of the reference dataset, in their
\* order and with their Genre; no Band of the result is in the reference
\* dataset and no other row is lost.
C8_AntiJoin ==
  fstage = "filtered" =>
    /\ Len(df_test) = Cardinality(Kept)
    /\ \A i \in Kept : df_test[Cardinality({j \in Kept : j <= i})] = bands_df[i]
    /\ \A j \in 1..Len(df_test) :
         \A k \in 1..Len(amg_data) : amg_data[k] # df_test[j].Band

\* C8 witness: 'Morbid Angel' and 'gorguts' are known, and of a table that
\* lists all three names the filter kept 'Gorguts' under both genres
C8_Witness ==
  /\ fstage = "filtered"
  /\ Len(bands_df) = 6
  /\ amg_data = <<"Morbid Angel", "gorguts">>
  /\ df_test = <<[Band |-> "Gorguts", Genre |-> "Death Metal"],
                 [Band |-> "Gorguts", Genre |-> "Black Metal"]>>

====
